---- MODULE Spec2Model ----
(***************************************************************************)
(* Model of src/src/parser.rs: the Fen / Row / Piece value types, the      *)
(* parser Fen::from_string, the constructors, and the three Display        *)
(* implementations.  Text is a sequence of one-character strings.  A call  *)
(* of from_string either returns a Fen or panics; the outcome is recorded  *)
(* in the variable fen.                                                    *)
(***************************************************************************)
EXTENDS Integers, Sequences, FiniteSets, TLC

VARIABLES
    given,      \* the Board the caller wrote `input` from, or NoBoard
    input,      \* the &str handed to Fen::from_string
    fen,        \* outcome of the constructor call: tag, panic message, rows
    made_by,    \* which constructor produced fen
    out,        \* what Display for Fen wrote for fen
    piece       \* a Piece built by one of the public constructors

vars == <<given, input, fen, made_by, out, piece>>

----------------------------------------------------------------------------
(* Bounds of the explored inputs *)

MaxGroups == 9      \* most '/'-separated groups in a sampled input
MaxRowLen == 9      \* most characters in one sampled group

(* Constants of the program *)

RowLen      == 8    \* vec![Piece::air(); 8]
AssertLimit == 8    \* assert!(i <= 8, ...)
LastIndex   == 8    \* if i == 8 in Display for Fen
Ranks       == 8    \* vec![row_1, ..., row_8] in Fen::default

----------------------------------------------------------------------------
(* Data model *)

PieceType  == {"Pawn", "Rook", "Knight", "Bishop", "Queen", "King", "Empty"}
PieceColor == {"White", "Black", "Empty"}

Piece(t, c) == [piece_type |-> t, color |-> c]

air == Piece("Empty", "Empty")

white_piece(piece_type) == Piece(piece_type, "White")

black_piece(piece_type) == Piece(piece_type, "Black")

Piece_default == air

\* a row one square short
Row_empty_short == [j \in 1..(RowLen - 1) |-> air]

Row_empty == [j \in 1..RowLen |-> air]

\* the Black back rank mirrored: King and Queen change places
Fen_default_mirrored ==
    LET back == <<"Rook", "Knight", "Bishop", "King", "Queen", "Bishop", "Knight", "Rook">>
    IN  << [j \in 1..8 |-> white_piece(<<"Rook", "Knight", "Bishop", "Queen", "King",
                                         "Bishop", "Knight", "Rook">>[j])],
           [j \in 1..8 |-> white_piece("Pawn")],
           Row_empty, Row_empty, Row_empty, Row_empty,
           [j \in 1..8 |-> black_piece("Pawn")],
           [j \in 1..8 |-> black_piece(back[j])] >>

Fen_default ==
    LET pawn_row_white == [j \in 1..8 |-> white_piece("Pawn")]
        pawn_row_black == [j \in 1..8 |-> black_piece("Pawn")]
        king_row_white == << white_piece("Rook"), white_piece("Knight"),
                             white_piece("Bishop"), white_piece("Queen"),
                             white_piece("King"), white_piece("Bishop"),
                             white_piece("Knight"), white_piece("Rook") >>
        king_row_black == << black_piece("Rook"), black_piece("Knight"),
                             black_piece("Bishop"), black_piece("Queen"),
                             black_piece("King"), black_piece("Bishop"),
                             black_piece("Knight"), black_piece("Rook") >>
    IN  << king_row_white, pawn_row_white, Row_empty, Row_empty,
           Row_empty, Row_empty, pawn_row_black, king_row_black >>

----------------------------------------------------------------------------
(* Fen::from_string *)

Returned(rows) == [tag |-> "ok", msg |-> "", rows |-> rows]
Panicked(msg)  == [tag |-> "panic", msg |-> msg, rows |-> <<>>]

RECURSIVE split_from(_, _, _, _)
split_from(s, i, cur, acc) ==
    IF i > Len(s) THEN Append(acc, cur)
    ELSE IF s[i] = "/" THEN split_from(s, i + 1, <<>>, Append(acc, cur))
    ELSE split_from(s, i + 1, Append(cur, s[i]), acc)

\* input.split('/'): one more group than there are separators
split(s) == split_from(s, 1, <<>>, <<>>)

Recognized == {"p", "P", "r", "R", "n", "N", "b", "B", "q", "Q", "k", "K", "_"}

\* the case convention of standard FEN: uppercase is White
match_char_conventional(char) ==
    CASE char = "P" -> white_piece("Pawn")
      [] char = "p" -> black_piece("Pawn")
      [] char = "R" -> white_piece("Rook")
      [] char = "r" -> black_piece("Rook")
      [] char = "N" -> white_piece("Knight")
      [] char = "n" -> black_piece("Knight")
      [] char = "B" -> white_piece("Bishop")
      [] char = "b" -> black_piece("Bishop")
      [] char = "Q" -> white_piece("Queen")
      [] char = "q" -> black_piece("Queen")
      [] char = "K" -> white_piece("King")
      [] char = "k" -> black_piece("King")
      [] char = "_" -> air

\* the arms of `match char`, for a recognized character
match_char(char) ==
    CASE char = "p" -> white_piece("Pawn")
      [] char = "P" -> black_piece("Pawn")
      [] char = "r" -> white_piece("Rook")
      [] char = "R" -> black_piece("Rook")
      [] char = "n" -> white_piece("Knight")
      [] char = "N" -> black_piece("Knight")
      [] char = "b" -> white_piece("Bishop")
      [] char = "B" -> black_piece("Bishop")
      [] char = "q" -> white_piece("Queen")
      [] char = "Q" -> black_piece("Queen")
      [] char = "k" -> white_piece("King")
      [] char = "K" -> black_piece("King")
      [] char = "_" -> air

RECURSIVE scan_row(_, _, _)
\* the inner loop; i is the 0-based index of enumerate()
scan_row(input_row, i, pieces) ==
    IF i >= Len(input_row) THEN Returned(pieces)
    ELSE IF ~(i <= AssertLimit) THEN Panicked("More than 8 characters provided in input row")
    ELSE LET char == input_row[i + 1] IN
         IF char \notin Recognized THEN Panicked("Unknown values in input FEN notation!")
         ELSE IF i >= Len(pieces) THEN Panicked("index out of bounds")
         ELSE scan_row(input_row, i + 1, [pieces EXCEPT ![i + 1] = match_char(char)])

RECURSIVE scan_rows(_, _, _)
\* the outer loop over the groups; a panic in a group ends the call
scan_rows(groups, k, rows) ==
    IF k > Len(groups) THEN Returned(rows)
    ELSE LET row == scan_row(groups[k], 0, Row_empty) IN
         IF row.tag = "panic" THEN row
         ELSE scan_rows(groups, k + 1, Append(rows, row.rows))

from_string(s) == scan_rows(split(s), 1, <<>>)

----------------------------------------------------------------------------
(* Display *)

Piece_fmt(p) ==
    CASE p.piece_type = "Pawn"   -> IF p.color = "White" THEN <<"p">> ELSE <<"P">>
      [] p.piece_type = "Rook"   -> IF p.color = "White" THEN <<"r">> ELSE <<"R">>
      [] p.piece_type = "Knight" -> IF p.color = "White" THEN <<"n">> ELSE <<"N">>
      [] p.piece_type = "Bishop" -> IF p.color = "White" THEN <<"b">> ELSE <<"B">>
      [] p.piece_type = "Queen"  -> IF p.color = "White" THEN <<"q">> ELSE <<"Q">>
      [] p.piece_type = "King"   -> IF p.color = "White" THEN <<"k">> ELSE <<"K">>
      [] p.piece_type = "Empty"  -> <<"_">>

Digits == <<"0", "1", "2", "3", "4", "5", "6", "7", "8", "9">>

RECURSIVE Decimal(_)
\* write!(f, "{count}") of a non-negative integer
Decimal(n) ==
    IF n < 10 THEN <<Digits[n + 1]>>
    ELSE Decimal(n \div 10) \o <<Digits[(n % 10) + 1]>>

RECURSIVE Row_fmt_from(_, _, _, _, _)
Row_fmt_from(pieces, j, count, last_was_empty, f) ==
    IF j > Len(pieces) THEN f
    ELSE IF pieces[j].piece_type = "Empty"
         THEN Row_fmt_from(pieces, j + 1, count + 1, TRUE, f)
         ELSE LET f1 == IF last_was_empty THEN f \o Decimal(count) ELSE f
                  c1 == IF last_was_empty THEN 0 ELSE count
              IN  Row_fmt_from(pieces, j + 1, c1, FALSE, f1 \o Piece_fmt(pieces[j]))

Row_fmt(pieces) == Row_fmt_from(pieces, 1, 0, FALSE, <<>>)

RECURSIVE Fen_fmt_from(_, _, _)
\* i is the 0-based index of enumerate()
Fen_fmt_from(rows, i, f) ==
    IF i >= Len(rows) THEN f
    ELSE IF i = LastIndex
         THEN Fen_fmt_from(rows, i + 1, f \o Row_fmt(rows[i + 1]))
         ELSE Fen_fmt_from(rows, i + 1, (f \o Row_fmt(rows[i + 1])) \o <<"/">>)

Fen_fmt(rows) == Fen_fmt_from(rows, 0, <<>>)

----------------------------------------------------------------------------
(* The texts and Boards the caller is explored with *)

Rep(c, n) == [j \in 1..n |-> c]

RECURSIVE JoinFrom(_, _, _)
JoinFrom(groups, k, acc) ==
    IF k > Len(groups) THEN acc
    ELSE JoinFrom(groups, k + 1, IF k = 1 THEN groups[k] ELSE (acc \o <<"/">>) \o groups[k])

\* the groups written one after the other with '/' between them
Join(groups) == JoinFrom(groups, 1, <<>>)

Kinds6 == <<"Pawn", "Rook", "Knight", "Bishop", "Queen", "King">>

Squares13 ==
    {Piece("Empty", "Empty")}
        \cup {Piece(t, c) : t \in PieceType \ {"Empty"}, c \in {"White", "Black"}}

EmptyBoard == [k \in 1..Ranks |-> [j \in 1..RowLen |-> Piece("Empty", "Empty")]]

\* a square that differs from rank to rank and from file to file
BaseSquare(k, j) ==
    LET n == (3 * k + j) % 13
    IN  IF n = 0 THEN Piece("Empty", "Empty")
        ELSE Piece(Kinds6[((n - 1) % 6) + 1], IF n <= 6 THEN "White" ELSE "Black")

BaseBoard == [k \in 1..Ranks |-> [j \in 1..RowLen |-> BaseSquare(k, j)]]

\* every placement of Empty squares in a row of pieces
PatternRows ==
    { [j \in 1..RowLen |-> IF j \in E THEN Piece("Empty", "Empty") ELSE BaseSquare(0, j)] :
        E \in SUBSET (1..RowLen) }

VariedRanks == {1, 4, 8}

Boards ==
    { [BaseBoard EXCEPT ![v] = r] : v \in VariedRanks, r \in PatternRows }
        \cup { [EmptyBoard EXCEPT ![k][j] = s] : k \in VariedRanks, j \in 1..RowLen, s \in Squares13 }

\* b in the placeholder grammar: one character per square, '_' for Empty
PlaceholderVariant(b) ==
    Join([k \in 1..Len(b) |-> [j \in 1..Len(b[k]) |-> Piece_fmt(b[k][j])[1]]])

StartGroups ==
    << <<"r", "n", "b", "q", "k", "b", "n", "r">>, Rep("p", 8), Rep("_", 8), Rep("_", 8),
       Rep("_", 8), Rep("_", 8), Rep("P", 8), <<"R", "N", "B", "Q", "K", "B", "N", "R">> >>

\* "rnbqkbnr/pppppppp/________/________/________/________/PPPPPPPP/RNBQKBNR"
StartInput == Join(StartGroups)

CycleText == <<"r", "n", "b", "q", "k", "b", "n", "r", "p", "_", "K", "Q", "P", "N", "_", "R", "B">>

CycleChar(j) == CycleText[((j - 1) % Len(CycleText)) + 1]

\* n recognized characters
Prefix(o, n) == [j \in 1..n |-> CycleChar(o + j)]

\* a group whose p-th character is c
GroupWith(p, c) ==
    [j \in 1..(IF p > RowLen THEN p ELSE RowLen) |-> IF j = p THEN c ELSE CycleChar(j)]

BadChars == {"x", "1", "8", " "}

CountInputs ==
    { Join([k \in 1..g |-> t]) : g \in 1..MaxGroups, t \in {<<>>, Rep("_", 8), StartGroups[1]} }

LengthInputs ==
    { Join([StartGroups EXCEPT ![v] = Prefix(o, n)]) :
        v \in 1..Ranks, n \in 0..MaxRowLen, o \in {0, 9} }

BadCharInputs ==
    { Join([StartGroups EXCEPT ![v] = GroupWith(p, c)]) :
        v \in {1, 5, 8}, p \in 1..MaxRowLen, c \in BadChars }

MixedInputs ==
    { Join([StartGroups EXCEPT ![a] = Prefix(0, MaxRowLen), ![b] = GroupWith(p, "x")]) :
        a \in {2, 6}, b \in {3, 5}, p \in {1, RowLen} }

OtherInputs ==
    {StartInput} \cup CountInputs \cup LengthInputs \cup BadCharInputs \cup MixedInputs

----------------------------------------------------------------------------
(* The caller *)

NoBoard == <<>>
NoFen   == [tag |-> "none", msg |-> "", rows |-> <<>>]
NoOut   == [written |-> FALSE, text |-> <<>>]
NoPiece == [piece_type |-> "none", color |-> "none"]

Init ==
    /\ \/ \E b \in Boards : given = b /\ input = PlaceholderVariant(b)
       \/ \E s \in OtherInputs : given = NoBoard /\ input = s
    /\ fen = NoFen
    /\ made_by = "none"
    /\ out = NoOut
    /\ piece = NoPiece

\* Fen::from_string(input)
FromString ==
    /\ made_by = "none"
    /\ fen' = from_string(input)
    /\ made_by' = "from_string"
    /\ UNCHANGED <<given, input, out, piece>>

\* Fen::default()
Default ==
    /\ made_by = "none"
    /\ fen' = Returned(Fen_default)
    /\ made_by' = "default"
    /\ UNCHANGED <<given, input, out, piece>>

\* format!("{fen}") on a Fen that was returned
Display ==
    /\ fen.tag = "ok"
    /\ ~out.written
    /\ out' = [written |-> TRUE, text |-> Fen_fmt(fen.rows)]
    /\ UNCHANGED <<given, input, fen, made_by, piece>>

\* Piece::air()
Air ==
    /\ piece = NoPiece
    /\ piece' = air
    /\ UNCHANGED <<given, input, fen, made_by, out>>

\* Piece::white_piece(k)
WhitePiece ==
    /\ piece = NoPiece
    /\ \E k \in PieceType : piece' = white_piece(k)
    /\ UNCHANGED <<given, input, fen, made_by, out>>

\* Piece::black_piece(k)
BlackPiece ==
    /\ piece = NoPiece
    /\ \E k \in PieceType : piece' = black_piece(k)
    /\ UNCHANGED <<given, input, fen, made_by, out>>

\* Piece::default()
PieceDefault ==
    /\ piece = NoPiece
    /\ piece' = Piece_default
    /\ UNCHANGED <<given, input, fen, made_by, out>>

Next ==
    \/ FromString
    \/ Default
    \/ Display
    \/ Air
    \/ WhitePiece
    \/ BlackPiece
    \/ PieceDefault

Spec == Init /\ [][Next]_vars

----------------------------------------------------------------------------
(* Vocabulary of the properties *)

Parsed == made_by = "from_string"

\* 8 rows of 8 squares
IsBoard(rows) ==
    /\ Len(rows) = 8
    /\ \A k \in 1..Len(rows) : Len(rows[k]) = 8

Slashes(s) == {i \in 1..Len(s) : s[i] = "/"}

\* the groups of s, by the positions of its separators
NumGroups(s) == Cardinality(Slashes(s)) + 1

DigitValue(c) == CHOOSE d \in 0..9 : Digits[d + 1] = c

RECURSIVE DecodeGroup(_, _, _)
\* the conventional grammar: a digit d is d Empty squares, a letter is one square
DecodeGroup(g, i, acc) ==
    IF i > Len(g) THEN acc
    ELSE IF \E d \in 0..9 : Digits[d + 1] = g[i]
         THEN DecodeGroup(g, i + 1, acc \o Rep(Piece("Empty", "Empty"), DigitValue(g[i])))
         ELSE DecodeGroup(g, i + 1, Append(acc, match_char(g[i])))

DecodeConventional(s) ==
    LET groups == split(s)
    IN  [k \in 1..Len(groups) |-> DecodeGroup(groups[k], 1, <<>>)]

Eights == <<"8", "/", "8", "/", "8", "/", "8", "/", "8", "/", "8", "/", "8", "/", "8">>

SquareInvariant(p) == (p.piece_type = "Empty") <=> (p.color = "Empty")

BackRank == <<"Rook", "Knight", "Bishop", "Queen", "King", "Bishop", "Knight", "Rook">>

----------------------------------------------------------------------------
(* Properties *)

\* C1: formatting a Board of 8 rows of 8 Empty squares yields exactly
\* "8/8/8/8/8/8/8/8".
C1_EmptyBoardFormatsAsEights ==
    (out.written /\ fen.rows = EmptyBoard) => out.text = Eights

\* C2: for every Board of 8 rows of 8 squares, decoding the formatted text with
\* the conventional grammar (split on '/', a letter is one square, a digit d is
\* d Empty squares) gives back the Board square for square.
C2_ConventionalRoundTrip ==
    (out.written /\ IsBoard(fen.rows)) => DecodeConventional(out.text) = fen.rows

\* C3: for every Board of 8 rows, the formatted text holds exactly 7 '/'
\* characters and neither starts nor ends with '/'.
C3_SevenSeparators ==
    (out.written /\ Len(fen.rows) = 8) =>
        /\ Cardinality(Slashes(out.text)) = 7
        /\ Len(out.text) > 0
        /\ out.text[1] # "/"
        /\ out.text[Len(out.text)] # "/"

\* C4: for every Board b, from_string of b written in the placeholder grammar
\* returns a Board equal to b square for square, input row k at index k.
C4_PlaceholderRoundTrip ==
    (Parsed /\ given # NoBoard) => fen = [tag |-> "ok", msg |-> "", rows |-> given]

\* C4 witness: a Board with White, Black and Empty squares has been parsed.
C4_Witness ==
    /\ Parsed
    /\ given # NoBoard
    /\ fen.tag = "ok"
    /\ given[1][1].color = "White"
    /\ given[1][2].color = "Empty"
    /\ given[1][8].color = "Black"
    /\ given[8] # given[1]

\* C5: from_string of the starting-position text returns a Board equal to
\* Fen::default: White back rank at index 0, White Pawns at 1, Empty at 2..5,
\* Black Pawns at 6, Black back rank at 7.
C5_StartPosition ==
    (Parsed /\ input = StartInput) =>
        /\ fen.tag = "ok"
        /\ fen.rows = Fen_default
        /\ Len(fen.rows) = 8
        /\ fen.rows[1] = [j \in 1..8 |-> Piece(BackRank[j], "White")]
        /\ fen.rows[2] = [j \in 1..8 |-> Piece("Pawn", "White")]
        /\ \A k \in 3..6 : fen.rows[k] = [j \in 1..8 |-> Piece("Empty", "Empty")]
        /\ fen.rows[7] = [j \in 1..8 |-> Piece("Pawn", "Black")]
        /\ fen.rows[8] = [j \in 1..8 |-> Piece(BackRank[j], "Black")]

\* C5 witness: the starting-position text has been parsed.
C5_Witness ==
    /\ Parsed
    /\ input = StartInput
    /\ fen.tag = "ok"

\* C6: from_string rejects every input that does not split into exactly 8
\* groups, so every Board it returns has 8 rows of 8 squares.
C6_RowCountRejected ==
    /\ (Parsed /\ NumGroups(input) # 8) => fen.tag # "ok"
    /\ (Parsed /\ fen.tag = "ok") => IsBoard(fen.rows)

\* C7: from_string of an input with a group of more than 8 characters fails
\* with a row-length error delivered to the caller; it does not crash.
C7_LongGroupIsRowLengthError ==
    Parsed =>
        LET groups == split(input)
        IN  (\E k \in 1..Len(groups) : Len(groups[k]) > 8) =>
                /\ fen.tag = "error"
                /\ fen.msg = "row length"

\* C8: from_string of an input with a character outside the alphabet fails
\* with an unrecognized-character error, distinct from the other errors, and
\* does not panic.
C8_BadCharIsCharacterError ==
    (Parsed /\ \E i \in 1..Len(input) : input[i] \notin Recognized \cup {"/"}) =>
        /\ fen.tag = "error"
        /\ fen.msg = "unrecognized character"

\* the C9 case: 8 groups of recognized characters, none longer than 8, one shorter
ShortGroups(groups) ==
    /\ Len(groups) = 8
    /\ \A k \in 1..Len(groups) :
          /\ Len(groups[k]) <= 8
          /\ \A j \in 1..Len(groups[k]) : groups[k][j] \in Recognized
    /\ \E k \in 1..Len(groups) : Len(groups[k]) < 8

\* C9: given 8 groups where a group has n < 8 recognized characters, from_string
\* returns a Board whose row has the mapped characters at 0..n-1 and Empty at
\* n..7; the other rows are as their own groups say.
C9_ShortGroupPadsEmpty ==
    Parsed =>
        LET groups == split(input)
        IN  ShortGroups(groups) =>
                /\ fen.tag = "ok"
                /\ IsBoard(fen.rows)
                /\ \A k \in 1..8 : \A j \in 1..8 :
                      fen.rows[k][j] =
                          IF j <= Len(groups[k])
                          THEN match_char(groups[k][j])
                          ELSE Piece("Empty", "Empty")

\* C9 witness: a group of 3 pieces among full groups has been parsed.
C9_Witness ==
    /\ Parsed
    /\ fen.tag = "ok"
    /\ LET groups == split(input)
       IN  /\ ShortGroups(groups)
           /\ \E k \in 1..8 :
                 /\ Len(groups[k]) = 3
                 /\ groups[k][1] # "_"
                 /\ \A m \in 1..8 \ {k} : Len(groups[m]) = 8

\* C10: every Piece from a public constructor, and every square of a Board
\* from from_string or Fen::default, has kind Empty iff color Empty.
C10_EmptyKindIffEmptyColor ==
    /\ piece # NoPiece => SquareInvariant(piece)
    /\ fen.tag = "ok" =>
          \A k \in 1..Len(fen.rows) : \A j \in 1..Len(fen.rows[k]) :
              SquareInvariant(fen.rows[k][j])

====
